---- MODULE Spec2Model ----
(***************************************************************************)
(* Model of the S/4HANA request execution layer of srv/proxy-service.js:   *)
(* the RequestQueue dispatcher, the CSRFTokenCache and executeS4Request.   *)
(*                                                                         *)
(* Scheduling follows the JavaScript event loop.  A promise continuation  *)
(* (the code after an `await`) is a job of the FIFO job queue `jobs`; it   *)
(* runs after the code that settled the promise has run to its next await. *)
(* Events of the outside world (a backend response, a timer, the clock     *)
(* moving on) are delivered only when the job queue is empty.  Calls made  *)
(* by request handlers (executeS4Request, get, clear) may come from jobs   *)
(* of handlers that are not modelled, so they can happen at any point      *)
(* between two modelled jobs.                                              *)
(***************************************************************************)
EXTENDS Integers, Sequences, FiniteSets, TLC

\* ---------------------------------------------------------------- bounds
\* number of executeS4Request invocations pending at a time
MaxReqs == 7
\* the same number where every invocation may also fail and be retried
MaxRetrying == 6
\* number of pending invocations, and the largest retries argument, where the
\* caller chooses the argument and the backend fails in every way
MaxExecs == 1
MaxRetries == 3
\* number of invocations that have met a failure, at a time, where callers
\* wait for slots while others back off
MaxFailing == 1
\* number of files of an upload, and of items of a purchase order update
MaxParts == 2
\* number of csrfCache.get invocations pending at a time
MaxGets == 2

\* ------------------------------------------------------ program constants
\* new RequestQueue(5)
maxConcurrent == 5
\* setTimeout(resolve, 1000 * attempt)
BackoffUnit == 1000
\* executeS4Request(config, retries = 2)
DefaultRetries == 2
\* (Date.now() - cached.timestamp) < 300000
FreshWindow == 300000

\* ---------------------------------------------------------------- values
NoValue == [kind |-> "undefined"]

\* a resolved backend call
Response(st) == [kind |-> "response", status |-> st]

\* a rejected backend call: error.code and error.response?.status
\* (status 0: the error carries no response)
Err(c, st) == [kind |-> "error", code |-> c, status |-> st]

IsError(v) == v.kind = "error"

\* the services whose token the handlers ask for
Keys == {"AttachmentSet", "UpdateReqSet"}

\* the instants Date.now() is observed at (ms since the process started)
Times == {0, FreshWindow - 1, FreshWindow, FreshWindow + 1}

\* what the backend answers to a queued call
Outcomes == {Response(200), Err("ECONNRESET", 0), Err("", 404)}

\* what the backend answers to the token fetch: the response headers
\* x-csrf-token and set-cookie, or an error
FetchOk(t, c) == [kind |-> "response", token |-> t, cookies |-> c]

\* a response header that is absent
NoHeader == ""

FetchOutcomes ==
    {FetchOk("T1", <<"c1", "c2">>), FetchOk(NoHeader, <<>>),
     Err("ETIMEDOUT", 0)}

VARIABLES
    running,   \* RequestQueue.running
    queue,     \* RequestQueue.queue: the resolvers, by the request they resume
    reqs,      \* the pending executeS4Request invocations
    returned,  \* what the executeS4Request invocation that ended last gave its caller
    tokens,    \* CSRFTokenCache.tokens
    locks,     \* CSRFTokenCache.locks: per key, the lock promise
    gets,      \* the pending csrfCache.get invocations
    gotten,    \* the csrfCache.get invocation that ended last, with its result
    invalidated, \* per key: clear(key) was called and get(key) not since
    now,       \* Date.now()
    jobs,      \* the promise job queue of the event loop
    handler,   \* the route handler invocation under way, or the last one
    s4call     \* the fetchFromS4 or postToS4 invocation under way, or the last one

vars == <<running, queue, reqs, returned, tokens, locks, gets, gotten,
          invalidated, now, jobs, handler, s4call>>

queueVars == <<running, queue, reqs, returned>>
cacheVars == <<tokens, locks, gets, gotten, invalidated>>

\* a slot that holds no pending invocation
FreeReq ==
    [pc |-> "free", attempt |-> 0, retries |-> 0, settled |-> NoValue,
     failedAt |-> 0]

\* no executeS4Request invocation has ended yet
NoReturn == [retries |-> -1, attempts |-> 0, value |-> NoValue]

\* what an executeS4Request invocation called with r for retries gave its
\* caller after n attempts
Returned(r, n, v) == [retries |-> r, attempts |-> n, value |-> v]

\* no route handler has been invoked yet
IdleHandler ==
    [route |-> "", pc |-> "idle", step |-> "", n |-> 0, i |-> 0, fails |-> 0,
     token |-> NoValue, calls |-> <<>>, oks |-> <<>>, status |-> 0]

\* no invocation of fetchFromS4 or postToS4 yet: sent are the requests handed
\* to executeHttpRequest, answers what they settled with, csrf what
\* fetchCsrfToken returned, result what the invocation gave its caller
IdleCall ==
    [fn |-> "", service |-> "", pc |-> "idle", sent |-> <<>>, answers |-> <<>>,
     csrf |-> NoValue, result |-> NoValue]

\* no lock promise under a key; a lock promise is known by the get call that
\* created it (its holder) and by the get calls that await it, oldest first
NoLock == [holder |-> 0, waiters |-> <<>>]

\* a slot that holds no pending get call
FreeGet ==
    [key |-> "", pc |-> "free", calledAt |-> 0, settled |-> NoValue,
     refresh |-> NoValue, fetches |-> 0]

\* what a get call that has ended went through and gave its caller
Ended(call, p, v) ==
    [key |-> call.key, path |-> p, calledAt |-> call.calledAt,
     refresh |-> call.refresh, fetches |-> call.fetches, result |-> v]

ReqJob(i) == [of |-> "req", id |-> i]
GetJob(g) == [of |-> "get", id |-> g]

Init ==
    /\ running = 0
    /\ queue = <<>>
    /\ reqs = [i \in 1..MaxReqs |-> FreeReq]
    /\ returned = NoReturn
    /\ tokens = [k \in Keys |-> NoValue]
    /\ locks = [k \in Keys |-> NoLock]
    /\ gets = [g \in 1..MaxGets |-> FreeGet]
    /\ gotten = Ended(FreeGet, "", NoValue)
    /\ invalidated = [k \in Keys |-> FALSE]
    /\ now = 0
    /\ jobs = <<>>
    /\ handler = IdleHandler
    /\ s4call = IdleCall

\* ------------------------------------------------------------ RequestQueue

\* a dispatcher that lets one caller too many in: running > maxConcurrent
MustWaitOffByOne == running > maxConcurrent

\* while (this.running >= this.maxConcurrent)
MustWait == running >= maxConcurrent

\* the invocation slots that hold no pending invocation
FreeReqs == {i \in 1..MaxReqs : reqs[i].pc = "free"}

\* RequestQueue.add up to the call of fn: request i, whose record is r, either
\* pushes its resolver and suspends, or takes a slot and starts the backend call
Admit(i, r) ==
    IF MustWait
    THEN /\ queue' = Append(queue, i)
         /\ running' = running
         /\ reqs' = [reqs EXCEPT ![i] = [r EXCEPT !.pc = "wait"]]
    ELSE /\ queue' = queue
         /\ running' = running + 1
         /\ reqs' = [reqs EXCEPT ![i] = [r EXCEPT !.pc = "run"]]

\* an add that catches the failure of fn and resolves with undefined
AddSwallows(v) == IF IsError(v) THEN NoValue ELSE v

\* what add hands to its caller once fn has settled with v: `return await fn()`
\* inside try/finally passes the value or the error through
AddSettles(v) == v

\* a completion that keeps its slot
RunningKept == running

\* a completion that gives the slot back twice
ReleasedTwice == running - 2

\* the finally block of add gives the slot back: this.running--
ReleasedRunning == running - 1

\* a classification without the upper bound on the status
IsTransientFrom500(e) ==
    \/ e.code = "ECONNRESET"
    \/ e.code = "ETIMEDOUT"
    \/ e.status >= 500

\* error.code === 'ECONNRESET' || error.code === 'ETIMEDOUT' ||
\* (error.response?.status >= 500 && error.response?.status < 600)
IsTransient(e) ==
    \/ e.code = "ECONNRESET"
    \/ e.code = "ETIMEDOUT"
    \/ (e.status >= 500 /\ e.status < 600)

\* an executor that retries a transient failure whatever the attempt number
RetryEveryTransient(r, e) == IsTransient(e)

\* an executor that retries every failure while attempts remain
RetryAnyFailure(r, e) == r.attempt < r.retries

\* attempt < retries && transient
ShouldRetry(r, e) == r.attempt < r.retries /\ IsTransient(e)

\* a handler calls executeS4Request(config, r) while fewer than n invocations
\* are pending: for (let attempt = 1; attempt <= retries; attempt++); attempt 1
\* enters add, or with r < 1 the loop body never runs and the function ends
\* without a return statement
SubmitTo(n, r) ==
    /\ FreeReqs \cap (1..n) # {}
    /\ IF 1 <= r
       THEN /\ LET free == FreeReqs \cap (1..n)
                   i == CHOOSE a \in free : \A b \in free : a <= b
               IN Admit(i, [pc |-> "new", attempt |-> 1, retries |-> r,
                            settled |-> NoValue, failedAt |-> 0])
            /\ returned' = returned
       ELSE /\ returned' = Returned(r, 0, NoValue)
            /\ UNCHANGED <<running, queue, reqs>>
    /\ UNCHANGED <<cacheVars, now, jobs, handler, s4call>>

\* a handler calls executeS4Request(config): retries = 2
Submit == SubmitTo(MaxReqs, DefaultRetries)

\* the same call in the specifications with retried invocations
SubmitRetrying == SubmitTo(MaxRetrying, DefaultRetries)

\* the backend answers the call of request i: the promise of fn() settles
Respond(i, o) ==
    /\ jobs = <<>>
    /\ reqs[i].pc = "run"
    /\ reqs' = [reqs EXCEPT ![i].pc = "settled", ![i].settled = o]
    /\ jobs' = <<ReqJob(i)>>
    /\ UNCHANGED <<running, queue, returned, cacheVars, now, handler, s4call>>

\* a completion that empties the queue after calling the oldest resolver
ShiftAndDrop == [released |-> Head(queue), rest |-> <<>>]

\* the finally block of add takes the oldest resolver: this.queue.shift()
Shift == [released |-> Head(queue), rest |-> Tail(queue)]

\* an executor that awaits add without returning what it resolved with
ExecDropsResponse(v) == NoValue

\* what executeS4Request gives its caller when add resolved with v:
\* return await s4RequestQueue.add(...)
ExecReturns(v) == v

\* a completion that calls every queued resolver instead of the oldest one
FinishReleasesAll(i) ==
    /\ jobs # <<>> /\ Head(jobs) = ReqJob(i)
    /\ reqs[i].pc = "settled"
    /\ running' = ReleasedRunning
    /\ LET v == AddSettles(reqs[i].settled)
           r == reqs[i]
           retry == IsError(v) /\ ShouldRetry(r, v)
           mine == IF retry
                   THEN [r EXCEPT !.pc = "backoff", !.failedAt = now]
                   ELSE FreeReq
           woken == {queue[n] : n \in 1..Len(queue)}
       IN /\ returned' = IF retry THEN returned
                         ELSE Returned(r.retries, r.attempt, v)
          /\ queue' = <<>>
          /\ reqs' = [j \in 1..MaxReqs |->
                        IF j = i THEN mine
                        ELSE IF j \in woken THEN [reqs[j] EXCEPT !.pc = "woken"]
                        ELSE reqs[j]]
          /\ jobs' = Tail(jobs) \o [n \in 1..Len(queue) |-> ReqJob(queue[n])]
    /\ UNCHANGED <<cacheVars, now, handler, s4call>>

\* add resumes after `await fn()`: its finally block, then the return or the
\* catch block of executeS4Request
Finish(i) ==
    /\ jobs # <<>> /\ Head(jobs) = ReqJob(i)
    /\ reqs[i].pc = "settled"
    /\ running' = ReleasedRunning
    /\ LET v == AddSettles(reqs[i].settled)
           r == reqs[i]
           retry == IsError(v) /\ ShouldRetry(r, v)
           mine == IF retry
                   THEN [r EXCEPT !.pc = "backoff", !.failedAt = now]
                   ELSE FreeReq
       IN /\ returned' = IF retry THEN returned
                         ELSE IF IsError(v)
                         THEN Returned(r.retries, r.attempt, v)
                         ELSE Returned(r.retries, r.attempt, ExecReturns(v))
          /\ IF queue # <<>>
             THEN /\ queue' = Shift.rest
                  /\ reqs' = [reqs EXCEPT ![i] = mine,
                                          ![Shift.released].pc = "woken"]
                  /\ jobs' = Append(Tail(jobs), ReqJob(Shift.released))
             ELSE /\ queue' = queue
                  /\ reqs' = [reqs EXCEPT ![i] = mine]
                  /\ jobs' = Tail(jobs)
    /\ UNCHANGED <<cacheVars, now, handler, s4call>>

\* a released waiter that takes a slot without testing running again: an
\* `if` where the code has a `while`
ResumeWithoutRetest(i) ==
    /\ jobs # <<>> /\ Head(jobs) = ReqJob(i)
    /\ reqs[i].pc = "woken"
    /\ reqs' = [reqs EXCEPT ![i].pc = "run"]
    /\ running' = running + 1
    /\ jobs' = Tail(jobs)
    /\ UNCHANGED <<queue, returned, cacheVars, now, handler, s4call>>

\* a released waiter resumes after `await new Promise(...)` and tests the loop
\* condition again
Resume(i) ==
    /\ jobs # <<>> /\ Head(jobs) = ReqJob(i)
    /\ reqs[i].pc = "woken"
    /\ Admit(i, reqs[i])
    /\ jobs' = Tail(jobs)
    /\ UNCHANGED <<returned, cacheVars, now, handler, s4call>>

\* a retry that starts its attempt without asking the dispatcher for a slot
RetryUnchecked(i) ==
    /\ jobs = <<>>
    /\ reqs[i].pc = "backoff"
    /\ reqs' = [reqs EXCEPT ![i].pc = "run", ![i].attempt = @ + 1,
                            ![i].settled = NoValue]
    /\ running' = running + 1
    /\ UNCHANGED <<queue, returned, cacheVars, now, jobs, handler, s4call>>

\* the backoff timer of request i fires: the next attempt enters add
Retry(i) ==
    /\ jobs = <<>>
    /\ reqs[i].pc = "backoff"
    /\ Admit(i, [reqs[i] EXCEPT !.attempt = @ + 1, !.settled = NoValue])
    /\ UNCHANGED <<returned, cacheVars, now, jobs, handler, s4call>>

\* a backoff that grows with the number of failures before the failed attempt
DelayFromZero(n) == BackoffUnit * (n - 1)

\* the delay of the timer set after attempt n failed: 1000 * attempt
BackoffDelay(n) == BackoffUnit * n

\* the timer of request i, set by setTimeout(resolve, 1000 * attempt) when its
\* attempt failed, has run its delay
TimerDue(i) == now - reqs[i].failedAt >= BackoffDelay(reqs[i].attempt)

\* the backoff timer of request i fires, the clock being followed
RetryWhenDue(i) == TimerDue(i) /\ Retry(i)

\* the steps of the dispatcher and the executor, the backend answering from outs
QueueNext(outs) ==
    \/ SubmitRetrying
    \/ \E i \in 1..MaxReqs : \E o \in outs : Respond(i, o)
    \/ \E i \in 1..MaxReqs : Finish(i)
    \/ \E i \in 1..MaxReqs : Resume(i)
    \/ \E i \in 1..MaxReqs : Retry(i)

NextQueue == QueueNext(Outcomes)

\* the dispatcher and the executor alone
SpecQueue == Init /\ [][NextQueue]_vars

\* what executeHttpRequest can end with: a response, a network error with a
\* code and no response, or an HTTP error with a response status
ExecOutcomes ==
    {Response(200), Err("ECONNRESET", 0), Err("ETIMEDOUT", 0),
     Err("ECONNREFUSED", 0), Err("", 404), Err("", 499), Err("", 500),
     Err("", 599), Err("", 600)}

\* the steps of executeS4Request called with any retries argument, below the
\* concurrency limit: no caller waits for a slot
NextExec ==
    \/ \E r \in 0..MaxRetries : SubmitTo(MaxExecs, r)
    \/ \E i \in 1..MaxReqs : \E o \in ExecOutcomes : Respond(i, o)
    \/ \E i \in 1..MaxReqs : Finish(i)
    \/ \E i \in 1..MaxReqs : Retry(i)

\* the executor alone
SpecExec == Init /\ [][NextExec]_vars

\* the steps of executeS4Request called with any retries argument, the
\* backend answering with a response, a transient or a terminal failure
NextFairExec ==
    \/ \E r \in 0..MaxRetries : SubmitTo(MaxExecs, r)
    \/ \E i \in 1..MaxExecs : \E o \in Outcomes : Respond(i, o)
    \/ \E i \in 1..MaxExecs : Finish(i)
    \/ \E i \in 1..MaxExecs : Retry(i)

\* the executor alone, with the scheduling the event loop gives: the promise
\* job queue is always drained, every backend call is answered or times out,
\* and every backoff timer fires
FairExec ==
    /\ Init /\ [][NextFairExec]_vars
    /\ WF_vars(\E i \in 1..MaxExecs : Finish(i))
    /\ \A i \in 1..MaxExecs :
          /\ SF_vars(\E o \in Outcomes : Respond(i, o))
          /\ SF_vars(Retry(i))

\* what the backend answers when the only failure is a transient one
BackoffOutcomes == {Response(200), Err("ECONNRESET", 0)}

\* the pending invocations that have met a failure
Failing ==
    {j \in 1..MaxReqs :
        reqs[j].pc # "free" /\ (reqs[j].attempt > 1 \/ IsError(reqs[j].settled))}

\* the steps of the dispatcher and the executor with callers enough to have
\* some of them wait for a slot while another backs off
NextBackoff ==
    \/ Submit
    \/ \E i \in 1..MaxReqs : \E o \in BackoffOutcomes :
          /\ IsError(o) => Cardinality(Failing \ {i}) < MaxFailing
          /\ Respond(i, o)
    \/ \E i \in 1..MaxReqs : Finish(i)
    \/ \E i \in 1..MaxReqs : Resume(i)
    \/ \E i \in 1..MaxReqs : Retry(i)

\* the dispatcher and the executor under transient failures
SpecBackoff == Init /\ [][NextBackoff]_vars

\* what the backend answers when no failure is transient
DispatcherOutcomes == {Response(200), Err("", 404)}

\* the steps of the dispatcher under single-attempt invocations: no backoff
NextDispatcher ==
    \/ Submit
    \/ \E i \in 1..MaxReqs : \E o \in DispatcherOutcomes : Respond(i, o)
    \/ \E i \in 1..MaxReqs : Finish(i)
    \/ \E i \in 1..MaxReqs : Resume(i)

\* the dispatcher alone
SpecDispatcher == Init /\ [][NextDispatcher]_vars

\* the dispatcher alone, with the scheduling the event loop gives: the promise
\* job queue is always drained, and every admitted operation is answered by the
\* backend sooner or later; nothing obliges a handler to call
FairDispatcher ==
    /\ SpecDispatcher
    /\ WF_vars(\E i \in 1..MaxReqs : Finish(i) \/ Resume(i))
    /\ \A i \in 1..MaxReqs :
          SF_vars(\E o \in DispatcherOutcomes : Respond(i, o))

\* ---------------------------------------------------------- CSRFTokenCache

\* a freshness test that still accepts an entry aged exactly 300000 ms
IsFreshInclusive(cached, t) ==
    cached.kind = "entry" /\ (t - cached.timestamp) <= FreshWindow

\* cached && (Date.now() - cached.timestamp) < 300000
IsFresh(cached, t) ==
    cached.kind = "entry" /\ (t - cached.timestamp) < FreshWindow

\* a lock test that looks for a lock under any key
HasAnyLock(k) == \E k2 \in Keys : locks[k2].holder # 0

\* a get that never looks at the lock
LockIgnored(k) == FALSE

\* this.locks.has(cacheKey)
HasLock(k) == locks[k].holder # 0

\* the get slots that hold no pending call
FreeGets == {g \in 1..MaxGets : gets[g].pc = "free"}

\* the token object built from the response headers of the fetch
TokenOf(o, t) ==
    [kind |-> "entry", csrfToken |-> o.token, cookies |-> o.cookies,
     timestamp |-> t]

\* a cache that stores a token object whether or not the fetch threw
StoredAlways(k, o, t) ==
    [tokens EXCEPT ![k] =
        IF IsError(o)
        THEN [kind |-> "entry", csrfToken |-> NoHeader, cookies |-> <<>>,
              timestamp |-> t]
        ELSE TokenOf(o, t)]

\* a refresher that deletes the entry of its key when the fetch fails
DroppedOnFailure(k, o, t) ==
    [tokens EXCEPT ![k] = IF IsError(o) THEN NoValue ELSE TokenOf(o, t)]

\* this.tokens after the fetch of key k has settled with o at time t:
\* this.tokens.set(cacheKey, token) is reached only when the fetch resolved
StoredTokens(k, o, t) ==
    IF IsError(o) THEN tokens ELSE [tokens EXCEPT ![k] = TokenOf(o, t)]

\* a refresher that removes its lock only after a fetch that succeeded
LocksKeptOnFailure(k, o) ==
    IF IsError(o) THEN locks ELSE [locks EXCEPT ![k] = NoLock]

\* this.locks after the finally block of the refresher of key k, whose fetch
\* settled with o: this.locks.delete(cacheKey)
LocksAfter(k, o) == [locks EXCEPT ![k] = NoLock]

\* what the refresher gives its caller: the token it built, or the error thrown
RefresherResult(o, t) == IF IsError(o) THEN o ELSE TokenOf(o, t)

\* a waiter that returns what the lock promise resolved with: undefined
WaiterGetsUndefined(k) == NoValue

\* what a waiter gives its caller once the lock promise it awaited has
\* resolved: return this.tokens.get(cacheKey)
WaiterResult(k) == tokens[k]

\* the cache hit: return cached
HitResult(cached) == cached

\* a handler calls csrfCache.get(k)
Get(k) ==
    /\ FreeGets # {}
    /\ LET g == CHOOSE n \in FreeGets : \A m \in FreeGets : n <= m
           cached == tokens[k]
           call == [key |-> k, pc |-> "new", calledAt |-> now,
                    settled |-> NoValue, refresh |-> NoValue, fetches |-> 0]
       IN IF IsFresh(cached, now)
          THEN /\ gotten' = Ended(call, "hit", HitResult(cached))
               /\ UNCHANGED <<gets, locks>>
          ELSE IF HasLock(k)
          THEN /\ gets' = [gets EXCEPT ![g] = [call EXCEPT !.pc = "wait"]]
               /\ locks' = [locks EXCEPT ![k].waiters = Append(@, g)]
               /\ gotten' = gotten
          ELSE /\ gets' = [gets EXCEPT ![g] = [call EXCEPT !.pc = "fetch",
                                                          !.fetches = 1]]
               /\ locks' = [locks EXCEPT ![k] = [holder |-> g, waiters |-> <<>>]]
               /\ gotten' = gotten
    /\ invalidated' = [invalidated EXCEPT ![k] = FALSE]
    /\ UNCHANGED <<queueVars, tokens, now, jobs, handler, s4call>>

\* a token fetch routed through the retry executor: a transient failure is
\* followed by another fetch attempt of the same get call
FetchRespondRetrying(g, o) ==
    /\ jobs = <<>>
    /\ gets[g].pc = "fetch"
    /\ IF IsError(o) /\ IsTransient(o) /\ gets[g].fetches <= DefaultRetries
       THEN /\ gets' = [gets EXCEPT ![g].fetches = @ + 1]
            /\ jobs' = jobs
       ELSE /\ gets' = [gets EXCEPT ![g].pc = "settled", ![g].settled = o]
            /\ jobs' = <<GetJob(g)>>
    /\ UNCHANGED <<queueVars, tokens, locks, gotten, invalidated, now, handler, s4call>>

\* the backend answers the token fetch of get call g: the await of
\* executeHttpRequest settles, with no attempt after it
FetchRespond(g, o) ==
    /\ jobs = <<>>
    /\ gets[g].pc = "fetch"
    /\ gets' = [gets EXCEPT ![g].pc = "settled", ![g].settled = o]
    /\ jobs' = <<GetJob(g)>>
    /\ UNCHANGED <<queueVars, tokens, locks, gotten, invalidated, now, handler, s4call>>

\* the refresher resumes after `await executeHttpRequest(...)`: it stores the
\* token unless the fetch threw, and in the finally block deletes the lock and
\* resolves the lock promise
FetchFinish(g) ==
    /\ jobs # <<>> /\ Head(jobs) = GetJob(g)
    /\ gets[g].pc = "settled"
    /\ LET k == gets[g].key
           o == gets[g].settled
           ws == locks[k].waiters
           res == RefresherResult(o, now)
       IN /\ tokens' = StoredTokens(k, o, now)
          /\ locks' = LocksAfter(k, o)
          /\ gets' = [n \in 1..MaxGets |->
                        IF n = g THEN FreeGet
                        ELSE IF \E j \in 1..Len(ws) : ws[j] = n
                        THEN [gets[n] EXCEPT !.pc = "woken", !.refresh = res]
                        ELSE gets[n]]
          /\ gotten' = Ended(gets[g], "refresher", res)
          /\ jobs' = Tail(jobs) \o [n \in 1..Len(ws) |-> GetJob(ws[n])]
    /\ UNCHANGED <<queueVars, invalidated, now, handler, s4call>>

\* a waiter resumes after `await this.locks.get(cacheKey)`
GetResume(g) ==
    /\ jobs # <<>> /\ Head(jobs) = GetJob(g)
    /\ gets[g].pc = "woken"
    /\ gets' = [gets EXCEPT ![g] = FreeGet]
    /\ gotten' = Ended(gets[g], "waiter", WaiterResult(gets[g].key))
    /\ jobs' = Tail(jobs)
    /\ UNCHANGED <<queueVars, tokens, locks, invalidated, now, handler, s4call>>

\* an invalidate that also drops the lock of the key
ClearDropsLock(k) ==
    /\ tokens' = [tokens EXCEPT ![k] = NoValue]
    /\ locks' = [locks EXCEPT ![k] = NoLock]
    /\ invalidated' = [invalidated EXCEPT ![k] = TRUE]
    /\ UNCHANGED <<queueVars, gets, gotten, now, jobs, handler, s4call>>

\* csrfCache.clear(k): this.tokens.delete(service)
Clear(k) ==
    /\ tokens' = [tokens EXCEPT ![k] = NoValue]
    /\ invalidated' = [invalidated EXCEPT ![k] = TRUE]
    /\ UNCHANGED <<queueVars, locks, gets, gotten, now, jobs, handler, s4call>>

\* time passes: Date.now() moves on to t
Tick(t) ==
    /\ jobs = <<>>
    /\ t > now
    /\ now' = t
    /\ UNCHANGED <<queueVars, cacheVars, jobs, handler, s4call>>

\* the steps of get calls for the keys ks, the backend answering from outs
GetNext(ks, outs) ==
    \/ \E k \in ks : Get(k)
    \/ \E g \in 1..MaxGets : \E o \in outs : FetchRespond(g, o)
    \/ \E g \in 1..MaxGets : FetchFinish(g)
    \/ \E g \in 1..MaxGets : GetResume(g)

NextGet ==
    \/ GetNext(Keys, FetchOutcomes)
    \/ \E t \in Times : Tick(t)

NextCache ==
    \/ NextGet
    \/ \E k \in Keys : Clear(k)

\* the token cache under get calls only
SpecGet == Init /\ [][NextGet]_vars

\* the token cache under get and clear calls
SpecCache == Init /\ [][NextCache]_vars

\* the instants the clock is read at around the backoff delays
ExecTimes ==
    {0, BackoffUnit - 1, BackoffUnit, BackoffUnit + 1,
     3 * BackoffUnit - 1, 3 * BackoffUnit}

\* the steps of the executor with the clock: a backoff timer fires only when
\* its delay has passed
NextTimed ==
    \/ \E r \in 1..MaxRetries : SubmitTo(MaxExecs, r)
    \/ \E i \in 1..MaxExecs : \E o \in BackoffOutcomes : Respond(i, o)
    \/ \E i \in 1..MaxExecs : Finish(i)
    \/ \E i \in 1..MaxExecs : RetryWhenDue(i)
    \/ \E t \in ExecTimes : Tick(t)

\* the executor and its backoff timers
SpecTimed == Init /\ [][NextTimed]_vars

\* what the backend may answer to a token fetch when transient failures are of
\* interest: the token, the transient failures of the retry condition, and a
\* failure that is not transient
RefreshOutcomes ==
    {FetchOk("T1", <<"c1", "c2">>), Err("ECONNRESET", 0), Err("ETIMEDOUT", 0),
     Err("", 500), Err("", 503), Err("", 404)}

NextRefresh ==
    \/ GetNext({"UpdateReqSet"}, RefreshOutcomes)
    \/ SubmitTo(MaxExecs, DefaultRetries)
    \/ \E i \in 1..MaxExecs : \E o \in BackoffOutcomes : Respond(i, o)
    \/ \E i \in 1..MaxExecs : Finish(i)
    \/ \E i \in 1..MaxExecs : Retry(i)

\* the token cache refreshing one key under transient failures, next to the
\* retry executor
SpecRefresh == Init /\ [][NextRefresh]_vars

\* the steps of the whole service while it drains: queued invocations, of
\* which the first MaxExecs may fail and be retried, and get calls on one key
\* whose fetch may fail
NextQuiesce ==
    \/ SubmitRetrying
    \/ \E i \in 1..MaxRetrying : \E o \in BackoffOutcomes :
          /\ IsError(o) => i <= MaxExecs
          /\ Respond(i, o)
    \/ \E i \in 1..MaxRetrying : Finish(i)
    \/ \E i \in 1..MaxRetrying : Resume(i)
    \/ \E i \in 1..MaxRetrying : Retry(i)
    \/ GetNext({"UpdateReqSet"}, {FetchOk("T1", <<"c1", "c2">>), Err("ETIMEDOUT", 0)})

SpecQuiesce == Init /\ [][NextQuiesce]_vars

\* a continuation in the promise job queue runs
JobStep ==
    \/ \E i \in 1..MaxRetrying : Finish(i) \/ Resume(i)
    \/ \E g \in 1..MaxGets : FetchFinish(g) \/ GetResume(g)

\* the backend answers a pending call, or a backoff timer fires
BackendStep ==
    \/ \E i \in 1..MaxRetrying : \E o \in BackoffOutcomes :
          /\ IsError(o) => i <= MaxExecs
          /\ Respond(i, o)
    \/ \E i \in 1..MaxRetrying : Retry(i)
    \/ \E g \in 1..MaxGets :
          \E o \in {FetchOk("T1", <<"c1", "c2">>), Err("ETIMEDOUT", 0)} :
             FetchRespond(g, o)

\* the service with the scheduling of the event loop: the promise job queue is
\* always drained, and while a backend call or a timer is pending one of them
\* completes sooner or later; nothing obliges a handler to call
FairQuiesce ==
    /\ SpecQuiesce
    /\ WF_vars(JobStep)
    /\ SF_vars(BackendStep)

\* ------------------------------------------------------------ the service

\* the executor and the token cache side by side, as the write handlers use
\* them for the delegation service: the backend answers a queued call or resets
\* the connection, and answers every token fetch
Next ==
    \/ QueueNext({Response(200), Err("ECONNRESET", 0)})
    \/ GetNext({"UpdateReqSet"}, {FetchOk("T1", <<"c1", "c2">>)})

Spec == Init /\ [][Next]_vars

\* ------------------------------------------------------------ route handlers

\* the handlers that write to the backend: attachment upload (197),
\* /http/post/data (393), postdeligate (675), /http/PRPO/Update (1533)
Routes == {"upload", "postdata", "postdeligate", "update"}

\* the handlers that call csrfCache.get before they write (219, 691)
TokenRoutes == {"upload", "postdeligate"}

\* what csrfCache.get can give the handler that awaits it: an entry with a
\* token, an entry without one, undefined, or the error of the token fetch
GetResults ==
    {TokenOf(FetchOk("T1", <<"c1", "c2">>), 0), TokenOf(FetchOk("T2", <<"c3">>), 0),
     TokenOf(FetchOk(NoHeader, <<>>), 0), NoValue,
     Err("ETIMEDOUT", 0), Err("", 403)}

\* Array.isArray(cookies) ? cookies.join('; ') : cookies
RECURSIVE CookieHeader(_)
CookieHeader(c) ==
    IF c = <<>> THEN ""
    ELSE IF Len(c) = 1 THEN c[1]
    ELSE c[1] \o "; " \o CookieHeader(Tail(c))

\* a handler that takes whatever entry the cache gives for a token
AnyEntry(v) == v.kind = "entry"

\* the handler's test of what csrfCache.get resolved with; reading csrfToken
\* of undefined throws: if (!tokenData.csrfToken) throw new Error(...)
HasToken(v) == v.kind = "entry" /\ v.csrfToken # NoHeader

\* the request a handler hands to executeS4Request with the token data
TokenRequest(m, st, tok) ==
    [method |-> m, step |-> st, csrf |-> tok.csrfToken,
     cookie |-> CookieHeader(tok.cookies), requestedWith |-> FALSE]

\* the request a handler hands to executeS4Request with no token:
\* 'X-Requested-With': 'X' for the writes; the final GET of the update has
\* an Accept header only
PlainRequest(m, st) ==
    [method |-> m, step |-> st, csrf |-> NoHeader, cookie |-> "",
     requestedWith |-> m # "GET"]

\* the handler hands request r to executeS4Request and awaits it
Calls(h, r) == [h EXCEPT !.pc = "call", !.step = r.step, !.calls = Append(@, r)]

\* the handler responds with status st
Responds(h, st) == [h EXCEPT !.pc = "done", !.status = st]

\* error.response?.status || 500
StatusOf(e) == IF e.status # 0 THEN e.status ELSE 500

\* a request arrives at route rt with n files or items; ok tells whether it
\* passes the handler's validation of the payload
Arrive(rt, n, ok) ==
    /\ handler.pc \in {"idle", "done"}
    /\ LET h == [IdleHandler EXCEPT !.route = rt, !.n = n]
       IN handler' =
            IF ~ok \/ (rt = "upload" /\ n = 0) THEN Responds(h, 400)
            ELSE IF rt \in TokenRoutes THEN [h EXCEPT !.pc = "token"]
            ELSE IF rt = "postdata" THEN Calls(h, PlainRequest("POST", "post"))
            ELSE Calls(h, PlainRequest("PATCH", "header"))
    /\ UNCHANGED <<queueVars, cacheVars, now, jobs, s4call>>

\* await csrfCache.get(...) ends with v
TokenReturns(v) ==
    /\ handler.pc = "token"
    /\ handler' =
         IF IsError(v)
         THEN Responds(handler, IF handler.route = "upload" THEN 500
                                ELSE StatusOf(v))
         ELSE IF ~HasToken(v) THEN Responds(handler, 500)
         ELSE LET h == [handler EXCEPT !.token = v, !.i = 1]
              IN IF handler.route = "upload"
                 THEN Calls(h, TokenRequest("POST", "file", v))
                 ELSE Calls(h, TokenRequest("POST", "post", v))
    /\ UNCHANGED <<queueVars, cacheVars, now, jobs, s4call>>

\* an upload handler that knows no partial success
UploadAllOrNothing(n, fails) == IF fails = 0 THEN 200 ELSE 500

\* the upload handler after the last file: 200 when no file failed, 500 when
\* none succeeded, 207 otherwise
UploadStatus(n, fails) ==
    IF fails = 0 THEN 200 ELSE IF n - fails = 0 THEN 500 ELSE 207

\* an update handler that gives up the remaining items once an item failed
SkipItemsAfterFailure(h) ==
    IF h.i < h.n /\ h.fails = 0
    THEN Calls([h EXCEPT !.i = @ + 1], PlainRequest("PATCH", "item"))
    ELSE Calls(h, PlainRequest("GET", "get"))

\* the update handler goes on to item i + 1, or to the final GET after the
\* last item
NextItem(h) ==
    IF h.i < h.n
    THEN Calls([h EXCEPT !.i = @ + 1], PlainRequest("PATCH", "item"))
    ELSE Calls(h, PlainRequest("GET", "get"))

\* await executeS4Request(...) ends with o; priced tells whether the item
\* has a pricing condition to update
CallReturns(o, priced) ==
    /\ handler.pc = "call"
    /\ LET h == handler
           failed == [h EXCEPT !.fails = @ + 1]
           next ==
            IF h.route = "upload"
            THEN LET g == IF IsError(o) THEN failed ELSE h
                 IN IF g.i < g.n
                    THEN Calls([g EXCEPT !.i = @ + 1],
                               TokenRequest("POST", "file", g.token))
                    ELSE Responds(g, UploadStatus(g.n, g.fails))
            ELSE IF h.route = "postdeligate"
            THEN IF IsError(o) THEN Responds(h, StatusOf(o))
                 ELSE Responds(h, 201)
            ELSE IF h.route = "postdata"
            THEN IF IsError(o) THEN Responds(h, 500) ELSE Responds(h, 201)
            ELSE IF h.step = "header"
            THEN IF IsError(o) THEN Responds(h, 500) ELSE NextItem(h)
            ELSE IF h.step = "item"
            THEN IF IsError(o) THEN NextItem(failed)
                 ELSE Calls(h, PlainRequest("PATCH", "schedule"))
            ELSE IF h.step = "schedule"
            THEN IF IsError(o) THEN NextItem(failed)
                 ELSE Calls(h, PlainRequest("PATCH", "account"))
            ELSE IF h.step = "account"
            THEN IF IsError(o) THEN NextItem(failed)
                 ELSE IF priced THEN Calls(h, PlainRequest("PATCH", "pricing"))
                 ELSE NextItem(h)
            ELSE IF h.step = "pricing"
            THEN NextItem(h)
            ELSE IF IsError(o) THEN Responds(h, 500) ELSE Responds(h, 200)
       IN handler' = [next EXCEPT !.oks = Append(h.oks, ~IsError(o))]
    /\ UNCHANGED <<queueVars, cacheVars, now, jobs, s4call>>

\* the steps of the handlers, csrfCache.get and executeS4Request giving them
\* any of their results
NextHandlers ==
    \/ \E rt \in Routes : \E n \in 0..MaxParts : \E ok \in BOOLEAN :
          Arrive(rt, n, ok)
    \/ \E v \in GetResults : TokenReturns(v)
    \/ \E o \in Outcomes : \E priced \in BOOLEAN : CallReturns(o, priced)

\* the route handlers alone
SpecHandlers == Init /\ [][NextHandlers]_vars

\* ------------------------------------------- fetchFromS4, fetchCsrfToken, postToS4

\* what fetchCsrfToken returns when it has no token to give
Null == [kind |-> "null"]

\* the set-cookie header of a response: absent, one string, or an array of
\* strings; each string is the sequence of its ';'-separated parts, the
\* name=value pair first and the attributes after it
NoSetCookie == [kind |-> "absent"]
OneSetCookie(c) == [kind |-> "string", value |-> c]
SetCookies(cs) == [kind |-> "array", values |-> cs]

\* the response to the token fetch: its headers under the three spellings the
\* code looks up, and set-cookie
MetadataReply(lower, upper, mixed, sc) ==
    [kind |-> "response", status |-> 200,
     headers |-> [lower |-> lower, upper |-> upper, mixed |-> mixed,
                  setCookie |-> sc]]

\* what the backend answers to the $metadata GET of fetchCsrfToken
TokenReplies ==
    {MetadataReply("T1", NoHeader, NoHeader,
                   SetCookies(<< <<"c1=a", " Path=/">>, <<"c2=b", " HttpOnly">> >>)),
     MetadataReply(NoHeader, "T2", NoHeader, OneSetCookie(<<"c3=c", " Secure">>)),
     MetadataReply(NoHeader, NoHeader, "T3", NoSetCookie),
     MetadataReply("T1", "T2", NoHeader, SetCookies(<<>>)),
     MetadataReply(NoHeader, NoHeader, NoHeader,
                   SetCookies(<< <<"c1=a", " Path=/">> >>)),
     Err("ETIMEDOUT", 0), Err("", 403), Err("", 500)}

\* what the backend answers to the GET of fetchFromS4 and the POST of postToS4
S4Outcomes ==
    {Response(200), Response(201),
     Err("ECONNREFUSED", 0), Err("ETIMEDOUT", 0), Err("ECONNRESET", 0),
     Err("", 400), Err("", 401), Err("", 403), Err("", 404), Err("", 407),
     Err("", 500), Err("ETIMEDOUT", 404)}

\* response.headers?.['x-csrf-token'] || response.headers?.['X-CSRF-Token'] ||
\* response.headers?.['X-Csrf-Token']
TokenHeader(h) ==
    IF h.lower # NoHeader THEN h.lower
    ELSE IF h.upper # NoHeader THEN h.upper
    ELSE h.mixed

\* cookie.split(';')[0]
CookiePair(c) == c[1]

\* the cookies fetchCsrfToken keeps: the name=value pair of every set-cookie
\* string, joined by '; '; the empty string when the header is absent
SessionCookies(sc) ==
    IF sc.kind = "absent" THEN ""
    ELSE IF sc.kind = "array"
    THEN CookieHeader([j \in 1..Len(sc.values) |-> CookiePair(sc.values[j])])
    ELSE CookiePair(sc.value)

\* fetchCsrfToken: null when the fetch threw or the response had no token,
\* { token, cookies } otherwise
FetchCsrfToken(o) ==
    IF IsError(o) THEN Null
    ELSE IF TokenHeader(o.headers) = NoHeader THEN Null
    ELSE [kind |-> "csrf", token |-> TokenHeader(o.headers),
          cookies |-> SessionCookies(o.headers.setCookie)]

\* if (!csrfData || !csrfData.token)
NoToken(csrfData) == csrfData = Null \/ csrfData.token = NoHeader

\* the service roots the functions are called with
S4Services == {"ZAPI_COMPCODE_CDS", "API_PURCHASEORDER_PROCESS_SRV"}

\* a request handed to executeHttpRequest: the method, the url (the service
\* root and what follows it) and the X-CSRF-Token and Cookie headers
S4Request(m, root, target, tok, cookie) ==
    [method |-> m, url |-> <<root, target>>, csrf |-> tok, cookie |-> cookie]

\* a POST that leaves the session cookies out
PostWithoutCookies(root, csrfData) ==
    S4Request("POST", root, "entity", csrfData.token, NoHeader)

\* the POST of postToS4: 'X-CSRF-Token': csrfData.token, and the Cookie
\* header when csrfData.cookies is not empty
PostRequest(root, csrfData) ==
    S4Request("POST", root, "entity", csrfData.token,
              IF csrfData.cookies # "" THEN csrfData.cookies ELSE NoHeader)

\* what the functions return: { success, error, httpStatus }; error "" and
\* httpStatus 0 stand for an absent property
S4Result(ok, code, st) ==
    [kind |-> "returned", success |-> ok, error |-> code, httpStatus |-> st]

\* error.response?.status || error.status
ErrorStatus(e) == e.status

\* the error code the catch block of fetchFromS4 chooses
FetchErrorCode(e) ==
    LET status == ErrorStatus(e)
    IN IF status = 401 \/ status = 407 THEN "DESTINATION_AUTH_FAILED"
       ELSE IF status = 404 THEN "SERVICE_NOT_FOUND"
       ELSE IF status = 403 THEN "ACCESS_DENIED"
       ELSE IF e.code = "ECONNREFUSED" \/ e.code = "ETIMEDOUT"
       THEN "CONNECTION_ERROR"
       ELSE IF status >= 500 THEN "SYSTEM_ERROR"
       ELSE "S4_FETCH_ERROR"

\* the error code the catch block of postToS4 chooses
PostErrorCode(e) ==
    LET status == ErrorStatus(e)
    IN IF status = 400 THEN "S4_BAD_REQUEST"
       ELSE IF status = 403 THEN "S4_CSRF_OR_AUTH_ERROR"
       ELSE IF status = 401 \/ status = 407 THEN "DESTINATION_AUTH_FAILED"
       ELSE IF status = 404 THEN "SERVICE_NOT_FOUND"
       ELSE IF e.code = "ECONNREFUSED" \/ e.code = "ETIMEDOUT"
       THEN "CONNECTION_ERROR"
       ELSE IF status >= 500 THEN "SYSTEM_ERROR"
       ELSE "S4_POST_ERROR"

\* a function without its catch block: the error goes to the caller
Rethrown(e, code) == [kind |-> "thrown", error |-> e]

\* the catch blocks of fetchFromS4 and postToS4: the error becomes the value
\* { success: false, error: errorCode, httpStatus: status }
Caught(e, code) == S4Result(FALSE, code, ErrorStatus(e))

\* the value returned after the backend call resolved
Succeeded == S4Result(TRUE, "", 0)

\* the value postToS4 returns when fetchCsrfToken gave no token
TokenError == S4Result(FALSE, "CSRF_TOKEN_ERROR", 500)

\* a service handler calls fetchFromS4: the GET is handed to
\* executeHttpRequest
CallFetchFromS4(root) ==
    /\ s4call.pc \in {"idle", "done"}
    /\ s4call' = [IdleCall EXCEPT
                    !.fn = "fetchFromS4", !.service = root, !.pc = "get",
                    !.sent = <<S4Request("GET", root, "entity", NoHeader,
                                         NoHeader)>>]
    /\ UNCHANGED <<queueVars, cacheVars, now, jobs, handler>>

\* a service handler calls postToS4, which calls fetchCsrfToken: the
\* $metadata GET with X-CSRF-Token: Fetch is handed to executeHttpRequest
CallPostToS4(root) ==
    /\ s4call.pc \in {"idle", "done"}
    /\ s4call' = [IdleCall EXCEPT
                    !.fn = "postToS4", !.service = root, !.pc = "token",
                    !.sent = <<S4Request("GET", root, "$metadata", "Fetch",
                                         NoHeader)>>]
    /\ UNCHANGED <<queueVars, cacheVars, now, jobs, handler>>

\* the GET of fetchFromS4 settles with o
GetReturns(o) ==
    /\ s4call.pc = "get"
    /\ s4call' = [s4call EXCEPT
                    !.pc = "done", !.answers = Append(@, o),
                    !.result = IF IsError(o) THEN Caught(o, FetchErrorCode(o))
                               ELSE Succeeded]
    /\ UNCHANGED <<queueVars, cacheVars, now, jobs, handler>>

\* the $metadata GET settles with o: fetchCsrfToken returns, and postToS4
\* either returns the token error or hands the POST to executeHttpRequest
TokenFetched(o) ==
    /\ s4call.pc = "token"
    /\ LET csrfData == FetchCsrfToken(o)
           c == [s4call EXCEPT !.answers = Append(@, o), !.csrf = csrfData]
       IN s4call' =
            IF NoToken(csrfData)
            THEN [c EXCEPT !.pc = "done", !.result = TokenError]
            ELSE [c EXCEPT !.pc = "post",
                           !.sent = Append(@, PostRequest(c.service, csrfData))]
    /\ UNCHANGED <<queueVars, cacheVars, now, jobs, handler>>

\* the POST of postToS4 settles with o
PostReturns(o) ==
    /\ s4call.pc = "post"
    /\ s4call' = [s4call EXCEPT
                    !.pc = "done", !.answers = Append(@, o),
                    !.result = IF IsError(o) THEN Caught(o, PostErrorCode(o))
                               ELSE Succeeded]
    /\ UNCHANGED <<queueVars, cacheVars, now, jobs, handler>>

NextS4 ==
    \/ \E root \in S4Services : CallFetchFromS4(root)
    \/ \E root \in S4Services : CallPostToS4(root)
    \/ \E o \in S4Outcomes : GetReturns(o)
    \/ \E o \in TokenReplies : TokenFetched(o)
    \/ \E o \in S4Outcomes : PostReturns(o)

\* the helper functions alone
SpecS4 == Init /\ [][NextS4]_vars

\* ================================================================ claims

\* the backend calls of the executor that are in flight
RunningReqs == {i \in 1..MaxReqs : reqs[i].pc = "run"}

\* the get calls whose token fetch is in flight or has just been answered, per key
Refreshers(k) ==
    {g \in 1..MaxGets : gets[g].key = k /\ gets[g].pc \in {"fetch", "settled"}}

\* the token fetches that are in flight
FetchingGets == {g \in 1..MaxGets : gets[g].pc = "fetch"}

\* C1: in every reachable state 0 <= running <= maxConcurrent, and a step that
\* admits a caller (running grows) starts in a state where running < maxConcurrent
C1_RunningWithinMax ==
    /\ [](running >= 0 /\ running <= maxConcurrent)
    /\ [][running' > running =>
            (running < maxConcurrent /\ running' = running + 1)]_vars

\* C1 witness: the pool is full and a caller has been made to wait
C1_Witness == running = maxConcurrent /\ queue # <<>>

\* C2: when the operation of request i has failed, the step in which add resumes
\* decrements running by exactly one, releases the head waiter if there is one,
\* and hands the same error to executeS4Request, which either throws it to its
\* caller or (transient, attempts left) backs off; it never returns a success
C2_FailureReleasesAndPropagates ==
    [][\A i \in 1..MaxReqs :
         (reqs[i].pc = "settled" /\ IsError(reqs[i].settled)
            /\ reqs'[i].pc # "settled")
         => /\ running' = running - 1
            /\ queue # <<>> =>
                 /\ queue' = Tail(queue)
                 /\ reqs'[Head(queue)].pc = "woken"
                 /\ jobs'[Len(jobs')] = ReqJob(Head(queue))
            /\ \/ /\ reqs'[i].pc = "backoff"
                  /\ reqs[i].attempt < reqs[i].retries
                  /\ returned' = returned
               \/ /\ reqs'[i].pc = "free"
                  /\ returned' = Returned(reqs[i].retries, reqs[i].attempt,
                                          reqs[i].settled)]_vars

\* C2 witness: an invocation has ended with an error while a waiter was queued,
\* and that waiter has been released
C2_Witness ==
    /\ IsError(returned.value)
    /\ \E i \in 1..MaxReqs : reqs[i].pc = "woken"

\* C3: the backend calls in flight, executor attempts and token fetches counted
\* together, are at most maxConcurrent
C3_BackendCallsWithinMax ==
    Cardinality(RunningReqs) + Cardinality(FetchingGets) <= maxConcurrent

\* C4: for every key at most one get call is fetching at any instant
C4_SingleFlight == \A k \in Keys : Cardinality(Refreshers(k)) <= 1

\* C4 witness: a fetch is in flight for a key that was invalidated meanwhile, and
\* another get call for that key waits for it
C4_Witness ==
    \E k \in Keys :
        /\ Refreshers(k) # {}
        /\ locks[k].waiters # <<>>
        /\ invalidated[k]

\* C5: while get calls for a key are suspended there is exactly one fetch for
\* that key, and a waiter whose refresh succeeded returns the very entry that
\* refresh produced (token, cookies and timestamp)
C5_WaitersShareTheRefresh ==
    /\ \A g \in 1..MaxGets :
          gets[g].pc = "wait" => Cardinality(Refreshers(gets[g].key)) = 1
    /\ (gotten.path = "waiter" /\ ~IsError(gotten.refresh))
          => gotten.result = gotten.refresh

\* C5 witness: a waiter has returned the entry of a successful refresh
C5_Witness ==
    /\ gotten.path = "waiter"
    /\ gotten.refresh.kind = "entry"
    /\ gotten.result.kind = "entry"

\* C6: a waiter whose refresh failed receives the error of that fetch
C6_WaitersReceiveTheError ==
    (gotten.path = "waiter" /\ IsError(gotten.refresh))
        => gotten.result = gotten.refresh

\* C7: an entry returned by get was fresh when the call checked the cache or
\* was stored during the call: its age at the time of the call is below 300000
C7_NeverReturnsStale ==
    gotten.result.kind = "entry"
        => gotten.calledAt - gotten.result.timestamp < FreshWindow

\* a get call for key k begins in this step and goes on to fetch or to wait
Misses(k) ==
    \E g \in 1..MaxGets :
        /\ gets[g].pc = "free"
        /\ gets'[g].pc \in {"fetch", "wait"}
        /\ gets'[g].key = k

\* a get call begins in this step and is served from the cache
Hits == gotten' # gotten /\ gotten'.path = "hit"

\* C8: get is served from the cache, with no fetch started, exactly when an
\* entry of age < 300000 ms exists: a call served from the cache returns such an
\* entry, and a call that fetches or waits found none
C8_ServedFromCacheIffFresh ==
    [][/\ Hits =>
            /\ tokens[gotten'.key].kind = "entry"
            /\ now - tokens[gotten'.key].timestamp < FreshWindow
            /\ gotten'.result = tokens[gotten'.key]
            /\ gets' = gets
       /\ \A k \in Keys :
            Misses(k) =>
               \/ tokens[k].kind # "entry"
               \/ now - tokens[k].timestamp >= FreshWindow]_vars

\* C8 witness: an entry was reused at the age of 299999 ms, and at the age of
\* 300000 ms a fetch was started for it
C8_Witness ==
    /\ gotten.path = "hit"
    /\ gotten.calledAt - gotten.result.timestamp = FreshWindow - 1
    /\ \E g \in 1..MaxGets :
          /\ gets[g].pc = "fetch"
          /\ tokens[gets[g].key] = gotten.result
          /\ gets[g].calledAt - gotten.result.timestamp = FreshWindow

\* C9: the get(key) that follows invalidate(key) starts a fetch of its own
C9_GetAfterInvalidateFetches ==
    [][\A k \in Keys :
         (invalidated[k] /\ Get(k))
            => \E g \in 1..MaxGets :
                  gets[g].pc = "free" /\ gets'[g].pc = "fetch"]_vars

\* C10: the step that ends a failed refresh leaves the cache content as it is,
\* removes the lock, so that the next get finding no fresh entry fetches, and
\* throws the error; the cache content of a key changes only by invalidate or
\* by a fetch for that key that succeeded
C10_FailedRefreshNotCached ==
    [][/\ \A g \in 1..MaxGets :
            (gets[g].pc = "settled" /\ IsError(gets[g].settled)
               /\ gets'[g].pc # "settled")
            => /\ tokens' = tokens
               /\ locks'[gets[g].key] = NoLock
               /\ gotten'.result = gets[g].settled
       /\ \A k \in Keys :
            tokens'[k] # tokens[k] =>
               \/ tokens'[k] = NoValue
               \/ \E g \in Refreshers(k) :
                     /\ gets[g].pc = "settled"
                     /\ ~IsError(gets[g].settled)
                     /\ tokens'[k].timestamp = now]_vars

\* C10 witness: a refresh has failed, the entry cached before it is still the
\* cached one, and no lock is left
C10_Witness ==
    /\ gotten.path = "refresher"
    /\ IsError(gotten.result)
    /\ tokens[gotten.key].kind = "entry"
    /\ ~HasLock(gotten.key)

\* C11: get(key) gives its caller only entries that carry a token, and the
\* cache holds no entry without one: a token fetch answered without an
\* x-csrf-token header ends as an error for the refresher and its waiters
C11_EntriesCarryAToken ==
    /\ \A k \in Keys :
          tokens[k].kind = "entry" => tokens[k].csrfToken # NoHeader
    /\ gotten.result.kind = "entry" => gotten.result.csrfToken # NoHeader

\* C12: no caller of add starves: when the job queue is always drained and
\* every admitted operation completes, a caller that waits for a slot is
\* admitted sooner or later, whatever the other callers submit meanwhile
C12_EverySubmitIsAdmitted ==
    \A i \in 1..MaxReqs : (reqs[i].pc = "wait") ~> (reqs[i].pc = "run")

\* position of the suspended caller i in the wait queue, 0 when it is not there
Position(q, i) ==
    IF \E n \in 1..Len(q) : q[n] = i
    THEN CHOOSE n \in 1..Len(q) : q[n] = i
    ELSE 0

\* one caller began its present wait before the other did
WaitsBefore(a, b) ==
    /\ reqs[a].pc = "wait" /\ reqs[b].pc = "wait"
    /\ Position(queue, a) < Position(queue, b)

\* C13: waiters are released in the order in which they began waiting: of two
\* suspended callers the later one is never released while the earlier one
\* still waits, and they keep their order as long as both wait; this holds
\* too for a released waiter that finds no free slot and waits again: it was
\* the oldest waiter, so it stays ahead of every caller that is suspended
C13_ReleasedInOrderOfWaiting ==
    [][/\ \A a, b \in 1..MaxReqs :
            WaitsBefore(a, b) =>
               /\ ~(reqs'[b].pc # "wait" /\ reqs'[a].pc = "wait")
               /\ (reqs'[a].pc = "wait" /\ reqs'[b].pc = "wait")
                  => Position(queue', a) < Position(queue', b)
       /\ \A a, b \in 1..MaxReqs :
            (reqs[a].pc = "woken" /\ reqs'[a].pc = "wait"
               /\ reqs[b].pc = "wait")
            => Position(queue', a) < Position(queue', b)]_vars

\* C14: the step that completes an operation while callers wait hands the
\* freed slot to the released waiter, counting it in running at once, and a
\* released waiter is admitted on resumption, never waiting again
C14_SlotHandedToReleasedWaiter ==
    [][/\ \A i \in 1..MaxReqs :
            (reqs[i].pc = "wait" /\ reqs'[i].pc = "woken")
            => running' = running
       /\ \A i \in 1..MaxReqs :
            (reqs[i].pc = "woken" /\ reqs'[i].pc # "woken")
            => reqs'[i].pc = "run"]_vars

\* C15: a key has a refresh lock exactly while a fetch for it is in flight
\* (from the call of the fetch until the refresher resumes from awaiting it),
\* the lock being that of the one get that fetches; no fetch in flight for any
\* key means no lock at all, whether the last fetch succeeded or failed
C15_LockExactlyWhileFetching ==
    /\ \A k \in Keys :
          /\ HasLock(k) <=> Refreshers(k) # {}
          /\ HasLock(k) => Refreshers(k) = {locks[k].holder}
    /\ (\A k \in Keys : Refreshers(k) = {}) => \A k \in Keys : locks[k] = NoLock

\* C15 witness: the fetch for one key has failed and left no lock, while the
\* fetch for the other key is in flight under its lock
C15_Witness ==
    /\ gotten.path = "refresher"
    /\ IsError(gotten.result)
    /\ ~HasLock(gotten.key)
    /\ \E k \in Keys \ {gotten.key} : HasLock(k) /\ Refreshers(k) # {}

\* the failures the executor is to retry: error code ECONNRESET or ETIMEDOUT,
\* or an HTTP status in 500..599
Retryable ==
    {e \in ExecOutcomes :
        /\ e.kind = "error"
        /\ \/ e.code \in {"ECONNRESET", "ETIMEDOUT"}
           \/ e.status \in 500..599}

\* the add call of invocation i resumes from an attempt that failed
FailedAttemptEnds(i) ==
    /\ reqs[i].pc = "settled"
    /\ IsError(reqs[i].settled)
    /\ reqs'[i].pc # "settled"

\* C16: a failed attempt is followed by another attempt exactly when the
\* failure is one of ECONNRESET, ETIMEDOUT or a status in 500..599 and the
\* attempt was not the last allowed one; every other failure (any 4xx, a
\* status of 600 or more, any other error code) ends the invocation, and a
\* new attempt starts only after such a failure
C16_RetriesIffTransient ==
    [][/\ \A i \in 1..MaxReqs :
            FailedAttemptEnds(i) =>
               /\ reqs'[i].pc = "backoff"
                  <=> (reqs[i].settled \in Retryable
                         /\ reqs[i].attempt < reqs[i].retries)
               /\ reqs'[i].pc # "backoff" => reqs'[i].pc = "free"
       /\ \A i \in 1..MaxReqs :
            (reqs[i].pc # "free" /\ reqs'[i].attempt # reqs[i].attempt
               /\ reqs'[i].pc # "free")
            => /\ reqs[i].pc = "backoff"
               /\ reqs[i].settled \in Retryable
               /\ reqs'[i].attempt = reqs[i].attempt + 1
               /\ reqs'[i].attempt <= reqs[i].retries]_vars

\* C16 witness: a failure with status 599 is being retried while an invocation
\* with attempts to spare has ended on its first failure, a status of 600
C16_Witness ==
    /\ \E i \in 1..MaxReqs :
          reqs[i].pc = "backoff" /\ reqs[i].settled = Err("", 599)
    /\ returned = Returned(MaxRetries, 1, Err("", 600))

\* C17: a failure that is not retryable, and a retryable one on the last
\* allowed attempt, end the invocation in the step that handles them: the
\* error goes to the caller as the result of that attempt (the first one when
\* the first failure is terminal), the invocation neither backs off nor enters
\* the dispatcher again
C17_TerminalFailureEndsAtOnce ==
    [][\A i \in 1..MaxReqs :
          (FailedAttemptEnds(i)
             /\ (reqs[i].settled \notin Retryable
                   \/ reqs[i].attempt >= reqs[i].retries))
          => /\ reqs'[i] = FreeReq
             /\ Position(queue', i) = 0
             /\ returned' = Returned(reqs[i].retries, reqs[i].attempt,
                                     reqs[i].settled)]_vars

\* C17 witness: an invocation allowed several attempts has ended after one
\* attempt with the 404 it met, and nothing of it is left
C17_Witness ==
    /\ returned = Returned(MaxRetries, 1, Err("", 404))
    /\ \A i \in 1..MaxReqs : reqs[i] = FreeReq

\* C18: whatever retries argument the caller passes, an invocation that has
\* ended has made at least one attempt and gave its caller the response of an
\* attempt or the error of an attempt, never nothing
C18_ResponseOrLastError ==
    returned # NoReturn =>
        /\ returned.attempts >= 1
        /\ returned.value.kind \in {"response", "error"}

\* C20: an attempt that succeeds ends the invocation in the step that handles
\* it: the caller gets the response of that attempt, whatever failed before,
\* and no further attempt is made although attempts may remain
C20_FirstSuccessIsReturned ==
    [][\A i \in 1..MaxReqs :
          (reqs[i].pc = "settled" /\ ~IsError(reqs[i].settled)
             /\ reqs'[i].pc # "settled")
          => /\ reqs'[i] = FreeReq
             /\ returned' = Returned(reqs[i].retries, reqs[i].attempt,
                                     reqs[i].settled)]_vars

\* C20 witness: the second attempt of an invocation succeeded after the first
\* had failed, and the invocation has returned its response with an attempt
\* to spare
C20_Witness ==
    /\ returned = Returned(MaxRetries, 2, Response(200))
    /\ \A i \in 1..MaxReqs : reqs[i] = FreeReq

\* the invocations whose attempt holds a slot of the dispatcher
SlotHolders == {i \in 1..MaxReqs : reqs[i].pc \in {"run", "settled"}}

\* C19: every attempt runs inside add, so the attempts under way are exactly
\* the slots taken and an invocation that backs off holds none; the step that
\* starts a backoff has given the slot back and released the oldest waiter;
\* the retry asks for admission like a new call: it takes a slot when one is
\* free and is otherwise suspended behind the callers already queued
C19_NoSlotHeldWhileBackingOff ==
    /\ [](running = Cardinality(SlotHolders))
    /\ [][\A i \in 1..MaxReqs :
            /\ (reqs[i].pc = "settled" /\ reqs'[i].pc = "backoff")
               => /\ running' = running - 1
                  /\ queue # <<>> => /\ queue' = Tail(queue)
                                     /\ reqs'[Head(queue)].pc = "woken"
            /\ (reqs[i].pc = "backoff" /\ reqs'[i].pc # "backoff")
               => IF running >= maxConcurrent
                  THEN /\ reqs'[i].pc = "wait"
                       /\ queue' = Append(queue, i)
                       /\ running' = running
                  ELSE /\ reqs'[i].pc = "run"
                       /\ queue' = queue
                       /\ running' = running + 1]_vars

\* C19 witness: all slots are taken by other invocations, and an invocation on
\* its second attempt, back from its backoff, is suspended behind a caller
\* that was queued before it
C19_Witness ==
    \E i \in 1..MaxReqs :
        /\ reqs[i].attempt = 2
        /\ reqs[i].pc = "wait"
        /\ Len(queue) >= 2
        /\ queue[Len(queue)] = i
        /\ running = maxConcurrent

Released == {i \in 1..MaxReqs : reqs[i].pc = "wait" /\ reqs'[i].pc = "woken"}
Completed == {i \in 1..MaxReqs : reqs[i].pc = "settled" /\ reqs'[i].pc # "settled"}
Called == {i \in 1..MaxReqs : reqs[i].pc = "free" /\ reqs'[i].pc # "free"}

\* C23: a suspended caller leaves its wait only by being released, and only
\* in a step that completes a running operation; a step releases no more
\* waiters than it completes operations, and at most one; a call of add that
\* finds running < maxConcurrent takes a slot at once and is not enqueued
C23_ReleasedOnlyByCompletion ==
    [][/\ \A i \in 1..MaxReqs :
            (reqs[i].pc = "wait" /\ reqs'[i].pc # "wait") => i \in Released
       /\ Cardinality(Released) <= Cardinality(Completed)
       /\ Cardinality(Released) <= 1
       /\ \A i \in Called :
            running < maxConcurrent
            => /\ reqs'[i].pc = "run"
               /\ running' = running + 1
               /\ queue' = queue]_vars

\* C23 witness: an operation has completed and released the older of two
\* waiters; the younger one still waits
C23_Witness ==
    /\ returned # NoReturn
    /\ \E a, b \in 1..MaxReqs :
          /\ reqs[a].pc = "woken"
          /\ reqs[b].pc = "wait"
          /\ queue = <<b>>
          /\ running = maxConcurrent - 1

\* the write requests the handler has handed to the executor
Writes ==
    {handler.calls[x] : x \in {y \in 1..Len(handler.calls) :
                                  handler.calls[y].method \in {"POST", "PATCH"}}}

FetchSucceeds(k) ==
    \E g \in 1..MaxGets :
        /\ gets[g].key = k
        /\ gets[g].pc = "settled"
        /\ ~IsError(gets[g].settled)
        /\ gets'[g].pc # "settled"

\* C25: a key gets an entry only in the step that ends a successful fetch for
\* it, loses its entry only by invalidate, and otherwise keeps one; a step
\* that replaces the entry is the end of a successful fetch for the key, and
\* the new timestamp is not smaller than the old one
C25_EntryLifecycle ==
    [][\A k \in Keys :
          /\ (tokens[k] = NoValue /\ tokens'[k] # NoValue)
             => tokens'[k].kind = "entry" /\ FetchSucceeds(k)
          /\ (tokens[k] # NoValue /\ tokens'[k] = NoValue)
             => /\ invalidated'[k]
                /\ gets' = gets /\ locks' = locks
          /\ (tokens[k] # NoValue /\ tokens'[k] # NoValue
                /\ tokens'[k] # tokens[k])
             => /\ FetchSucceeds(k)
                /\ tokens'[k].kind = "entry"
                /\ tokens'[k].timestamp >= tokens[k].timestamp]_vars

\* C25 witness: the entry made at time 0 is still the entry of its key after
\* it went stale and a refresh for the key failed
C25_Witness ==
    \E k \in Keys :
        /\ tokens[k].kind = "entry" /\ tokens[k].timestamp = 0
        /\ now > FreshWindow
        /\ gotten.key = k /\ gotten.path = "refresher"
        /\ gotten.calledAt >= FreshWindow
        /\ IsError(gotten.result)

\* C26: running is the number of operations admitted and not yet completed;
\* a step that admits an operation adds exactly one to it, a step that
\* completes one, by success or by failure, takes exactly one from it, no
\* other step changes it, and it is never negative
C26_RunningCountsAdmitted ==
    /\ [](running = Cardinality(SlotHolders) /\ running >= 0)
    /\ [][LET admitted == {i \in 1..MaxReqs :
                             reqs[i].pc \notin {"run", "settled"}
                             /\ reqs'[i].pc = "run"}
          IN /\ Cardinality(admitted) <= 1
             /\ Cardinality(Completed) <= 1
             /\ running' = running + Cardinality(admitted)
                                   - Cardinality(Completed)]_vars

\* C26 witness: operations have completed by success and by failure, one
\* invocation backs off, and two operations are admitted and not completed
C26_Witness ==
    /\ running = 2
    /\ IsError(returned.value)
    /\ \E i, j \in 1..MaxReqs :
          /\ reqs[i].pc = "backoff"
          /\ reqs[j].pc = "run" /\ reqs[j].attempt = 2

\* the callers suspended in add, and those released and not yet resumed
Waiting == {i \in 1..MaxReqs : reqs[i].pc = "wait"}
Woken == {i \in 1..MaxReqs : reqs[i].pc = "woken"}

\* C27: no wake-up is lost: every suspended caller has its resolver in the
\* queue, and while callers are suspended and no released one has yet to
\* resume, every slot is taken
C27_NoLostWakeup ==
    /\ \A i \in Waiting : Position(queue, i) # 0
    /\ (queue # <<>> /\ Woken = {}) => running = maxConcurrent
    /\ (Waiting # {} /\ Woken = {}) => running = maxConcurrent

\* C27 witness: a released waiter lost its slot to a new call and waits again
\* behind another caller, with every slot taken and nobody left to resume
C27_Witness ==
    /\ Len(queue) = 2
    /\ Woken = {}
    /\ jobs = <<>>
    /\ running = maxConcurrent
    /\ returned # NoReturn

\* C28: a call of add runs its operation once: the operation starts only in
\* a step that takes a slot, from the call itself or from a released waiter,
\* it ends once, and the call is over with it; a resolver is in the queue
\* once and leaves it when released; a released waiter that finds every slot
\* taken waits again and does not start its operation
C28_OperationRunsOnce ==
    /\ [](\A m, n \in 1..Len(queue) : queue[m] = queue[n] => m = n)
    /\ [](\A i \in Woken : Position(queue, i) = 0)
    /\ [][\A i \in 1..MaxReqs :
            /\ (reqs[i].pc # "run" /\ reqs'[i].pc = "run")
               => /\ reqs[i].pc \in {"free", "woken"}
                  /\ running < maxConcurrent
                  /\ running' = running + 1
            /\ reqs[i].pc = "run" => reqs'[i].pc \in {"run", "settled"}
            /\ reqs[i].pc = "settled" => reqs'[i].pc \in {"settled", "free"}
            /\ reqs[i].pc = "wait" => reqs'[i].pc \in {"wait", "woken"}
            /\ (reqs[i].pc = "woken" /\ reqs'[i].pc # "woken")
               => IF running >= maxConcurrent
                  THEN reqs'[i].pc = "wait" /\ queue' = Append(queue, i)
                  ELSE reqs'[i].pc = "run"]_vars

\* C28 witness: a released waiter is about to resume while every slot is
\* taken again
C28_Witness ==
    /\ Woken # {}
    /\ running = maxConcurrent
    /\ jobs # <<>> /\ Head(jobs).id \in Woken

\* the step invalidates key k: the only step that marks a key invalidated or
\* takes an entry away
Invalidates(k) ==
    \/ ~invalidated[k] /\ invalidated'[k]
    \/ tokens[k] # NoValue /\ tokens'[k] = NoValue

\* C29: invalidate(key) takes away the entry of key and changes nothing
\* else: the entries of the other keys, every lock, that of a refresh in
\* flight for key included, and every pending get stay as they are; a
\* refresh in flight for key stores its token under key when it ends,
\* whether or not key was invalidated meanwhile
C29_InvalidateChangesOneEntry ==
    [][/\ \A k \in Keys :
            Invalidates(k) =>
               /\ tokens'[k] = NoValue
               /\ \A k2 \in Keys \ {k} : tokens'[k2] = tokens[k2]
               /\ locks' = locks
               /\ gets' = gets /\ gotten' = gotten
               /\ jobs' = jobs /\ now' = now
       /\ \A g \in 1..MaxGets :
            (gets[g].pc = "settled" /\ ~IsError(gets[g].settled)
               /\ gets'[g].pc # "settled")
            => /\ tokens'[gets[g].key].kind = "entry"
               /\ tokens'[gets[g].key].csrfToken = gets[g].settled.token
               /\ tokens'[gets[g].key].timestamp = now]_vars

\* C29 witness: a key was invalidated while a refresh for it was in flight,
\* no get for it was called since, and the refresh has stored its token
\* under the key; the other key has its lock and its fetch in flight
C29_Witness ==
    \E k \in Keys :
        /\ invalidated[k]
        /\ tokens[k].kind = "entry"
        /\ gotten.key = k /\ gotten.path = "refresher"
        /\ \E k2 \in Keys \ {k} : HasLock(k2)

\* the keys other than k
OtherKeys(k) == Keys \ {k}

\* C30: refreshes are serialized per key and per key only: a get that finds
\* no fresh entry for its key fetches at once unless its own key has a lock,
\* whatever the locks of the other keys; the end of a fetch for a key touches
\* the entry, the lock and the waiters of that key only; and a get is given
\* what was fetched or cached under its own key
C30_SerializedPerKeyOnly ==
    [][/\ \A g \in 1..MaxGets :
            (gets[g].pc = "free" /\ gets'[g].pc # "free")
            => LET k == gets'[g].key
               IN /\ gets'[g].pc =
                       IF locks[k].holder # 0 THEN "wait" ELSE "fetch"
                  /\ \A k2 \in OtherKeys(k) : locks'[k2] = locks[k2]
       /\ \A g \in 1..MaxGets :
            (gets[g].pc = "settled" /\ gets'[g].pc # "settled")
            => LET k == gets[g].key
               IN /\ \A k2 \in OtherKeys(k) :
                        /\ tokens'[k2] = tokens[k2]
                        /\ locks'[k2] = locks[k2]
                  /\ \A h \in 1..MaxGets :
                        gets[h].key # k => gets'[h] = gets[h]
                  /\ gotten'.key = k
                  /\ gotten'.result \in {gets[g].settled, tokens'[k]}
       /\ \A g \in 1..MaxGets :
            (gets[g].pc = "woken" /\ gets'[g].pc # "woken")
            => /\ gotten'.key = gets[g].key
               /\ gotten'.result = tokens[gets[g].key]]_vars

\* C30 witness: the fetches of two keys are in flight at the same time, each
\* under the lock of its own key
C30_Witness ==
    \E g, h \in 1..MaxGets :
        /\ gets[g].pc = "fetch" /\ gets[h].pc = "fetch"
        /\ gets[g].key # gets[h].key
        /\ locks[gets[g].key].holder = g
        /\ locks[gets[h].key].holder = h

\* C31: a refresh attempts its token fetch exactly once. A get call that
\* fetches has made one attempt while it fetches and when the fetch has settled;
\* the step after a settled fetch, whatever the outcome (ECONNRESET, ETIMEDOUT
\* and 5xx included), ends the call as the refresher with one attempt made and,
\* on failure, with that very error; and no step of a get call touches the
\* dispatcher or the executor's invocations.
C31_OneFetchPerRefresh ==
    [][ /\ \A g \in 1..MaxGets :
             gets'[g].pc \in {"fetch", "settled"} => gets'[g].fetches = 1
        /\ \A g \in 1..MaxGets :
             (gets[g].pc = "fetch" /\ gets'[g] # gets[g])
                => (gets'[g].pc = "settled" /\ gets'[g].fetches = 1)
        /\ \A g \in 1..MaxGets :
             (gets[g].pc = "settled" /\ gets'[g] # gets[g])
                => /\ gets'[g] = FreeGet
                   /\ gotten'.path = "refresher"
                   /\ gotten'.fetches = 1
                   /\ IsError(gets[g].settled)
                        => gotten'.result = gets[g].settled
        /\ (gets' # gets) => UNCHANGED <<running, queue, reqs>>
      ]_vars

\* a refresh has ended with a 5xx failure after a single fetch attempt, while
\* an invocation of the executor is in flight
C31_Witness ==
    /\ gotten.path = "refresher"
    /\ gotten.result = Err("", 503)
    /\ IsTransient(gotten.result)
    /\ gotten.fetches = 1
    /\ running > 0

\* a handler calls add or get
NewCall == SubmitRetrying \/ \E k \in Keys : Get(k)

\* no slot taken, nobody waiting for a slot, no refresh lock
Quiet ==
    /\ running = 0
    /\ queue = <<>>
    /\ \A k \in Keys : locks[k] = NoLock

\* C32: quiescence. In every run where from some point on no handler calls add
\* or get, and where pending backend calls and timers keep completing, the
\* service reaches, and then stays in, a state with running = 0, an empty wait
\* queue and no refresh lock for any key.
C32_Quiescence == (<>[][~NewCall]_vars) => <>[]Quiet

\* every slot is taken, one of them by a second attempt, a caller waits for a
\* slot, and a refresh holds the lock with a get call waiting on it
C32_Witness ==
    /\ running = maxConcurrent
    /\ queue # <<>>
    /\ \E i \in 1..MaxRetrying : reqs[i].pc = "run" /\ reqs[i].attempt = 2
    /\ locks["UpdateReqSet"].holder # 0
    /\ locks["UpdateReqSet"].waiters # <<>>

\* the calls of the request the handler works on that are calls for an item
ItemSteps == {"item", "schedule", "account", "pricing"}

\* the positions in the handler's calls where the call for a new item is made
ItemCalls == {j \in 1..Len(handler.calls) : handler.calls[j].step = "item"}

\* C33: the order of the calls of the PO update handler. The header PATCH is
\* the first call and the only header call; when it fails the handler makes no
\* other call and responds 500. A schedule call follows a successful item call,
\* an account call a successful schedule call, a pricing call a successful
\* account call, each directly. After a failed item, schedule or account call,
\* and after any pricing call, the next call is the item call of the next item
\* or the final GET, never a call of the same item. The final GET is the last
\* call and is made only when every item of the request has had its item call,
\* and a request whose header PATCH succeeded ends only after the final GET.
C33_UpdateCallOrder ==
    LET c == handler.calls
        k == handler.oks
    IN handler.route = "update" =>
       /\ \A j \in 1..Len(c) : (c[j].step = "header") <=> (j = 1)
       /\ (Len(k) >= 1 /\ ~k[1]) =>
             (Len(c) = 1 /\ handler.pc = "done" /\ handler.status = 500)
       /\ \A j \in 2..Len(c) :
             /\ c[j].step = "schedule" => (c[j-1].step = "item" /\ k[j-1])
             /\ c[j].step = "account" => (c[j-1].step = "schedule" /\ k[j-1])
             /\ c[j].step = "pricing" => (c[j-1].step = "account" /\ k[j-1])
       /\ \A j \in 1..Len(k) :
             c[j].step \in ItemSteps =>
               /\ Len(c) > j
               /\ (~k[j] \/ c[j].step = "pricing")
                     => c[j+1].step \in {"item", "get"}
               /\ (k[j] /\ c[j].step = "item") => c[j+1].step = "schedule"
               /\ (k[j] /\ c[j].step = "schedule") => c[j+1].step = "account"
       /\ \A j \in 1..Len(c) :
             c[j].step = "get" =>
               (j = Len(c) /\ Cardinality(ItemCalls) = handler.n)
       /\ Cardinality(ItemCalls) <= handler.n
       /\ (handler.pc = "done" /\ Len(k) >= 1 /\ k[1]) =>
             (c[Len(c)].step = "get" /\ handler.status \in {200, 500})

\* an update of two items has ended with 200: the schedule call of the first
\* item failed, the second item went through with a failed pricing call, and
\* the final GET was made
C33_Witness ==
    /\ handler.route = "update" /\ handler.pc = "done"
    /\ handler.n = 2 /\ handler.status = 200
    /\ [j \in 1..Len(handler.calls) |-> handler.calls[j].step] =
          <<"header", "item", "schedule", "item", "schedule", "account",
            "pricing", "get">>
    /\ handler.oks = <<TRUE, TRUE, FALSE, TRUE, TRUE, TRUE, FALSE, TRUE>>

\* the file POSTs of the request that have failed
FailedFiles == {j \in 1..Len(handler.oks) : ~handler.oks[j]}

\* C34: the attachment upload handler. No file is posted while the handler
\* awaits the token, nor ever when the cache gave no entry with a token; every
\* file POST carries the one token and the cookies the handler obtained; the
\* i-th POST is made for the i-th file, after every earlier POST has settled;
\* a request that obtained its token ends only when all its files have been
\* posted, whatever failed, and then with 200 iff no file failed, 500 iff all
\* failed and 207 otherwise. A request that obtained no token ends with 500
\* (or with 400 when it was rejected before the token was asked for).
C34_UploadPostsEveryFile ==
    LET c == handler.calls
        k == handler.oks
        n == handler.n
    IN handler.route = "upload" =>
       /\ handler.pc = "token" => c = <<>>
       /\ handler.token = NoValue => c = <<>>
       /\ handler.token # NoValue =>
             /\ HasToken(handler.token)
             /\ \A j \in 1..Len(c) :
                   c[j] = TokenRequest("POST", "file", handler.token)
       /\ Len(c) = handler.i /\ Len(c) <= n
       /\ handler.pc = "call" => Len(k) = Len(c) - 1
       /\ handler.fails = Cardinality(FailedFiles)
       /\ (handler.pc = "done" /\ handler.token # NoValue) =>
             /\ Len(c) = n /\ Len(k) = n
             /\ handler.status \in {200, 207, 500}
             /\ handler.status = 200 <=> FailedFiles = {}
             /\ handler.status = 500 <=> FailedFiles = 1..n
       /\ (handler.pc = "done" /\ handler.token = NoValue) =>
             handler.status \in {400, 500}

\* an upload of two files has ended with 207: the first file failed and the
\* second was posted all the same, with the same token
C34_Witness ==
    /\ handler.route = "upload" /\ handler.pc = "done"
    /\ handler.n = 2 /\ Len(handler.calls) = 2
    /\ handler.oks = <<FALSE, TRUE>>
    /\ handler.status = 207
    /\ handler.calls[2].csrf = handler.token.csrfToken

\* the name=value pairs of the set-cookie header of a response, in order
PairsOf(sc) ==
    IF sc.kind = "absent" THEN <<>>
    ELSE IF sc.kind = "string" THEN <<sc.value[1]>>
    ELSE [j \in 1..Len(sc.values) |-> sc.values[j][1]]

\* the token fetch of the postToS4 invocation has settled without a token:
\* it failed, or its response has none of the three token headers
FetchGaveNoToken ==
    /\ Len(s4call.answers) >= 1
    /\ \/ IsError(s4call.answers[1])
       \/ LET h == s4call.answers[1].headers
          IN h.lower = NoHeader /\ h.upper = NoHeader /\ h.mixed = NoHeader

\* C35: postToS4 and the token. The first request of every postToS4 is the
\* token fetch ($metadata of the service root with X-CSRF-Token: Fetch). A POST
\* is made only as the second request, after that fetch was answered with a
\* token: it goes to the same service root and carries a token header of that
\* answer and the name=value pairs of that answer's set-cookie header. When
\* the fetch gave no token, postToS4 has ended with success = false, error
\* CSRF_TOKEN_ERROR and httpStatus 500, having made no other request; when it
\* gave one, the POST has been made.
C35_PostOnlyWithFetchedToken ==
    LET c == s4call
    IN c.fn = "postToS4" =>
       /\ Len(c.sent) >= 1
       /\ c.sent[1] = S4Request("GET", c.service, "$metadata", "Fetch", NoHeader)
       /\ \A j \in 1..Len(c.sent) :
             c.sent[j].method = "POST" =>
               /\ j = 2
               /\ ~FetchGaveNoToken
               /\ c.sent[j].url = <<c.service, "entity">>
               /\ c.sent[j].csrf # NoHeader
               /\ c.sent[j].csrf \in {c.answers[1].headers.lower,
                                      c.answers[1].headers.upper,
                                      c.answers[1].headers.mixed}
               /\ c.sent[j].cookie =
                    CookieHeader(PairsOf(c.answers[1].headers.setCookie))
       /\ FetchGaveNoToken =>
             /\ c.pc = "done"
             /\ c.result.success = FALSE
             /\ c.result.error = "CSRF_TOKEN_ERROR"
             /\ c.result.httpStatus = 500
             /\ Len(c.sent) = 1
       /\ (Len(c.answers) >= 1 /\ ~FetchGaveNoToken) =>
             (Len(c.sent) = 2 /\ c.sent[2].method = "POST")

\* a postToS4 has ended well after a POST that carried the token T1 and the
\* two cookies of the answer to its token fetch
C35_Witness ==
    /\ s4call.fn = "postToS4" /\ s4call.pc = "done"
    /\ s4call.result.success
    /\ Len(s4call.sent) = 2
    /\ s4call.sent[2].csrf = "T1"
    /\ s4call.sent[2].cookie = "c1=a; c2=b"

\* the backend call whose outcome decided the result of the ended invocation
LastAnswer == s4call.answers[Len(s4call.answers)]

\* C36: the helper functions turn failures into values. An invocation that
\* has ended has returned a value, whatever the backend did, and every request
\* it made has been answered. success = true is returned only when no request
\* of the invocation failed. A failed GET of fetchFromS4 and a failed POST of
\* postToS4 give success = false with an error code and the status of the
\* failure as httpStatus; a failed token fetch makes fetchCsrfToken return
\* null and postToS4 return success = false with an error code and
\* httpStatus 500.
C36_FailuresBecomeValues ==
    LET c == s4call
    IN /\ c.pc # "done" => c.result = NoValue
       /\ (Len(c.answers) >= 1 /\ c.fn = "postToS4" /\ IsError(c.answers[1])) =>
             c.csrf = Null
       /\ c.pc = "done" =>
             /\ c.result.kind = "returned"
             /\ Len(c.answers) = Len(c.sent)
             /\ c.result.success =>
                  \A j \in 1..Len(c.answers) : ~IsError(c.answers[j])
             /\ IsError(LastAnswer) =>
                  /\ c.result.success = FALSE
                  /\ c.result.error # ""
                  /\ c.result.httpStatus =
                       IF c.fn = "postToS4" /\ Len(c.answers) = 1 THEN 500
                       ELSE LastAnswer.status

\* a postToS4 whose POST was refused by the network has returned
\* CONNECTION_ERROR with no HTTP status
C36_Witness ==
    /\ s4call.fn = "postToS4" /\ s4call.pc = "done"
    /\ Len(s4call.answers) = 2
    /\ s4call.answers[2] = Err("ECONNREFUSED", 0)
    /\ s4call.result = S4Result(FALSE, "CONNECTION_ERROR", 0)

====
